---- MODULE Spec2Model ----
(***************************************************************************)
(* State-machine model of the a11yhood backend's library-catalog (GOAT)    *)
(* scraper: GOATScraper.scrape and the helpers it calls                    *)
(* (src/scrapers/goat.py), run against a products table and a             *)
(* scraper_search_terms table of the row store.                            *)
(*                                                                         *)
(* Strings the code takes apart (URLs, titles, work ids) are sequences of  *)
(* tokens, each token a string; "" is the empty sequence.  Python's None   *)
(* is the empty sequence as well wherever the code only tests truthiness,  *)
(* and an optional dict is <<>> (None) or <<d>>.                           *)
(***************************************************************************)
EXTENDS Integers, Sequences, FiniteSets, TLC

\* ------------------------------------------------------------------ bounds
MaxTargets == 2
MaxLimit == 1
MaxPathLen == 4
MaxFetches == 3
MaxTime == 6
TicksPerSecond == 2
MaxBulk == 2
MaxClock == 2

\* ------------------------------------------------------------- vocabulary
None == <<>>
Some(x) == <<x>>

WS == " "
DigitTokens == {"1", "7"}

\* str.strip(): drop leading and trailing whitespace
RECURSIVE LStrip(_)
LStrip(s) == IF s # <<>> /\ Head(s) = WS THEN LStrip(Tail(s)) ELSE s

RECURSIVE RStrip(_)
RStrip(s) ==
    IF s # <<>> /\ s[Len(s)] = WS THEN RStrip(SubSeq(s, 1, Len(s) - 1)) ELSE s

Strip(s) == LStrip(RStrip(s))

\* str.startswith('http')
StartsWithHttp(s) == s # <<>> /\ s[1] \in {"http://", "https://"}

\* ------------------------------------------------------- target universe
\* one work (id 1) addressed in three shapes, and a URL that names no work
WorkUrl1 == <<"https://", "www.librarything.com", "/work/", "1">>
EditionUrl1 == <<"https://", "www.librarything.com", "/work/", "1", "/book/", "7">>
BareId1 == <<" ", "1">>
UserUrl == <<"https://", "www.librarything.com", "/user/", "someuser">>
Blank == <<>>

TargetUniverse == {WorkUrl1, EditionUrl1, BareId1, UserUrl}

RECURSIVE SeqsUpTo(_, _)
SeqsUpTo(S, n) ==
    IF n = 0 THEN {<<>>}
    ELSE LET shorter == SeqsUpTo(S, n - 1)
         IN  shorter \cup {Append(s, x) : s \in {t \in shorter : Len(t) = n - 1}, x \in S}

\* the urls argument: None, or a list of targets
UrlsInputs == {None} \cup {Some(l) : l \in SeqsUpTo(TargetUniverse, MaxTargets)}

\* the (test_mode, test_limit) arguments; test_limit defaults to 5 and is
\* only read when test_mode is true; None stands for a value that does not
\* compare with an int
TEST_LIMIT_DEFAULT == 5
ModeInputs ==
    {<<FALSE, Some(TEST_LIMIT_DEFAULT)>>}
        \cup {<<TRUE, Some(n)>> : n \in 0..MaxLimit}
        \cup {<<TRUE, None>>}

\* ----------------------------------------------------------- upstream XML
Elem(tag, text, kids) == [tag |-> tag, text |-> text, kids |-> kids]

Title1 == <<" ", "The Curious Garden", " ">>

OkBody(title) ==
    Some(Elem("response", <<>>, <<Elem("work", <<>>, <<Elem("title", title, <<>>)>>)>>))
ErrorBody ==
    Some(Elem("response", <<>>,
              <<Elem("error", <<>>, <<Elem("message", <<"Work not found">>, <<>>)>>)>>))
ErrorRootBody == Some(Elem("error", <<>>, <<Elem("message", <<"Work not found">>, <<>>)>>))
NoTitleBody == Some(Elem("response", <<>>, <<Elem("work", <<>>, <<>>)>>))
BlankTitleBody == OkBody(<<" ">>)
MalformedBody == None

Response(status, body) == [status_code |-> status, body |-> body]

WorkIds == {<<"1">>}

\* what the upstream API may answer for a work id
Responses ==
    {Response(200, OkBody(Title1)), Response(200, ErrorBody),
     Response(200, ErrorRootBody), Response(200, NoTitleBody),
     Response(200, BlankTitleBody), Response(200, MalformedBody),
     Response(403, MalformedBody)}

\* what one request does on the wire
Transports == {"response", "timeout", "http_error", "connect_error"}

\* what the scraper_search_terms table may hold for platform = goat when it is read
SearchTermChoices ==
    {<<>>,
     <<[search_term |-> Blank]>>,
     <<[search_term |-> Blank], [search_term |-> BareId1], [search_term |-> EditionUrl1]>>}

VARIABLES
    api_key,          \* self.api_key
    products,         \* table products
    upstream,         \* what the upstream API answers for each work id; it
                      \* holds the same data throughout a behaviour
    pc,               \* position of the scrape call
    test_mode, test_limit, urls,
    targets, i, results,
    work_id, source_url, work_data, product_payload, existing,
    attempted,        \* loop bodies entered in this run
    fetches,          \* upstream requests issued in this run
    writes,           \* products inserts/updates issued in this run
    lastOutcome,      \* what the log says of the last target processed
    clean,            \* no row-store call and no request failed in this run
    sameAsPrev,       \* this run repeats the run before: same call, same targets
    prevClean,        \* clean of the run before, when this run repeats it
    rowsAtStart,      \* Len(products) when this run began
    termReads,        \* reads of scraper_search_terms issued in this run
    readData,         \* the rows the last such read returned, None if none did
    processed,        \* the targets whose loop body was entered in this run, in order
    extraction,       \* one call of _extract_work_id: its url, and its result once made
    wire,             \* the clock and one adapter instance's requests, seen on the wire
    other,            \* a second scrape run at work on one target of its own
    single,           \* one call of scrape_url: its url, what the request did, its outcome
    service,          \* one call of a ScraperService entry point
    refresh,          \* one stored row met again by a scrape: the row, the new record, the write
    coll,             \* the collections API: its tables, its clock, the last response
    accounts          \* the users API: the users table and the last response

vars == <<api_key, products, upstream, pc, test_mode, test_limit, urls,
          targets, i, results, work_id, source_url, work_data, product_payload,
          existing, attempted, fetches, writes, lastOutcome, clean,
          sameAsPrev, prevClean, rowsAtStart, termReads, readData, processed,
          extraction, wire, other, single, service, refresh, coll, accounts>>

\* everything a bulk scrape reads or writes
scrapeRun == <<api_key, upstream, pc, test_mode, test_limit, urls,
               targets, i, results, work_id, source_url, work_data, product_payload,
               existing, attempted, fetches, writes, lastOutcome, clean,
               sameAsPrev, prevClean, rowsAtStart, termReads, readData, processed>>
scrapeVars == <<products, scrapeRun>>

\* what no step of a bulk scrape changes
env == <<api_key, extraction, wire, other, single, service, refresh, coll, accounts>>
args == <<test_mode, test_limit, urls>>
locals == <<work_id, source_url, work_data, product_payload, existing>>
runGhosts == <<sameAsPrev, prevClean, rowsAtStart, termReads, readData>>

\* ------------------------------------------------------------ pure helpers
\* an extraction that takes the last number of the url
_extract_work_id_LastNumber(url) ==
    LET hits == {j \in 1..Len(url) : url[j] \in DigitTokens}
    IN  IF hits = {} THEN None
        ELSE <<url[CHOOSE j \in hits : \A k \in hits : k <= j]>>

\* re.search(r'/work/(\d+)', url): the digits after the leftmost '/work/'
_extract_work_id(url) ==
    LET hits == {j \in 1..(Len(url) - 1) : url[j] = "/work/" /\ url[j + 1] \in DigitTokens}
    IN  IF hits = {} THEN None
        ELSE <<url[(CHOOSE j \in hits : \A k \in hits : j <= k) + 1]>>

\* Element.find(tag): the first direct child with that tag, or None
Find(elem, tag) ==
    LET hits == {j \in 1..Len(elem.kids) : elem.kids[j].tag = tag}
    IN  IF hits = {} THEN None
        ELSE Some(elem.kids[CHOOSE j \in hits : \A k \in hits : j <= k])

\* Element.findtext(tag, default)
FindText(elem, tag, default) ==
    IF Find(elem, tag) = None THEN default ELSE Find(elem, tag)[1].text

CanonicalWorkUrl(wid) == <<"https://", "www.librarything.com", "/work/">> \o wid

\* a parser that keeps a blank title as it is
_parse_xml_response_NoStrip(xml_text, wid) ==
    IF xml_text = None THEN None
    ELSE LET root == xml_text[1]
             work == Find(root, "work")
         IN  IF Find(root, "error") # None \/ work = None THEN None
             ELSE LET title == FindText(work[1], "title", <<>>)
                  IN  IF title = <<>> THEN None
                      ELSE Some([work_id |-> wid, title |-> title,
                                 url |-> CanonicalWorkUrl(wid)])

\* a parser that fills in a missing title
_parse_xml_response_Untitled(xml_text, wid) ==
    IF xml_text = None THEN None
    ELSE LET root == xml_text[1]
             work == Find(root, "work")
         IN  IF Find(root, "error") # None \/ work = None THEN None
             ELSE LET title == Strip(FindText(work[1], "title", <<>>))
                  IN  Some([work_id |-> wid,
                            title |-> IF title = <<>> THEN <<"Untitled">> ELSE title,
                            url |-> CanonicalWorkUrl(wid)])

\* GOATScraper._parse_xml_response; xml_text = None is a body ET.fromstring rejects
_parse_xml_response(xml_text, wid) ==
    IF xml_text = None THEN None                       \* ET.ParseError
    ELSE LET root == xml_text[1]
             work == Find(root, "work")
         IN  IF Find(root, "error") # None THEN None   \* API error
             ELSE IF work = None THEN None             \* no work element
             ELSE LET title == Strip(FindText(work[1], "title", <<>>))
                  IN  IF title = <<>> THEN None        \* no title
                      ELSE Some([work_id |-> wid, title |-> title,
                                 url |-> CanonicalWorkUrl(wid)])

\* dict.get(key): None when the key is missing
Get(wd, key) == IF key \in DOMAIN wd THEN wd[key] ELSE None

\* lines 354-373: the description put together from author, description,
\* publication year and language; None when the work has none of them
Description(wd) ==
    LET author == Get(wd, "author")
        text == Get(wd, "description")
        year == Get(wd, "publication_year")
        lang == Get(wd, "language")
        d0 == IF author # None /\ text # None THEN <<"By ">> \o author \o <<"\n\n">> \o text
              ELSE IF author # None THEN <<"By ">> \o author
              ELSE text
        d1 == IF year = None THEN d0
              ELSE IF d0 # None THEN d0 \o <<"\n\nPublished: ">> \o year
              ELSE <<"Published: ">> \o year
    IN  IF lang = None THEN d1
        ELSE IF d1 # None THEN d1 \o <<"\nLanguage: ">> \o lang
        ELSE <<"Language: ">> \o lang

\* a payload that always carries a description and an image
_create_product_dict_Placeholders(wd, src) ==
    [name |-> IF "title" \in DOMAIN wd THEN wd.title ELSE <<"Untitled">>,
     description |-> IF Description(wd) # None THEN Description(wd)
                     ELSE <<"No description available">>,
     source |-> "GOAT",
     url |-> IF src # None THEN src ELSE wd.url,
     image |-> IF Get(wd, "image_url") # None THEN Get(wd, "image_url")
               ELSE <<"no-cover">>,
     type |-> "Book",
     external_id |-> wd.work_id]

\* GOATScraper._create_product_dict (the fields the claims are about)
_create_product_dict(wd, src) ==
    [name |-> IF "title" \in DOMAIN wd THEN wd.title ELSE <<"Untitled">>,
     description |-> Description(wd),
     source |-> "GOAT",
     url |-> IF src # None THEN src ELSE wd.url,
     image |-> Get(wd, "image_url"),
     type |-> "Book",
     external_id |-> wd.work_id]

\* ---------------------------------------------- row-store helpers (base)
\* BaseScraper._product_exists: the first products row with this url, or None
_product_exists(rows, url) ==
    LET hits == {j \in 1..Len(rows) : rows[j].url = url}
    IN  IF hits = {} THEN None
        ELSE Some(rows[CHOOSE j \in hits : \A k \in hits : j <= k])

\* BaseScraper._create_product, when the insert succeeds
_create_product(rows, raw_data) ==
    Append(rows, [id |-> Len(rows) + 1] @@ raw_data)

\* the fields of a payload that may carry no value
OptionalFields == {"description", "image"}

\* an update with the new fields: a field the payload has no value for keeps
\* the stored value
Merge(row, raw_data) ==
    [k \in DOMAIN row \cup DOMAIN raw_data |->
        IF k \notin DOMAIN raw_data THEN row[k]
        ELSE IF k \in OptionalFields /\ k \in DOMAIN row /\ raw_data[k] = None THEN row[k]
        ELSE raw_data[k]]

\* BaseScraper._update_product, when the update succeeds
_update_product(rows, product_id, raw_data) ==
    [j \in 1..Len(rows) |->
        IF rows[j].id = product_id THEN Merge(rows[j], raw_data) ELSE rows[j]]

\* ------------------------------------------------------------------ report
NewResults ==
    [source |-> "GOAT", products_found |-> 0, products_added |-> 0,
     products_updated |-> 0, status |-> "success"]

ErrorReport ==
    [source |-> "GOAT", products_found |-> 0, products_added |-> 0,
     products_updated |-> 0, status |-> "error", error_message |-> "Scraper error"]

\* the products tables a behaviour starts from: empty, or the one row an
\* earlier scrape of the work left, under either of the urls it can be stored under
InitStores ==
    LET wd == _parse_xml_response(OkBody(Title1), <<"1">>)[1]
    IN  {<<>>,
         _create_product(<<>>, _create_product_dict(wd, None)),
         _create_product(<<>>, _create_product_dict(wd, EditionUrl1))}

\* no call of scrape has been made
ScrapeAtRest ==
    /\ pc = "idle"
    /\ test_mode = FALSE
    /\ test_limit = Some(TEST_LIMIT_DEFAULT)
    /\ urls = None
    /\ targets = <<>>
    /\ i = 0
    /\ results = NewResults
    /\ work_id = None /\ source_url = None /\ work_data = None
    /\ product_payload = None /\ existing = None
    /\ attempted = 0 /\ fetches = 0 /\ writes = 0
    /\ lastOutcome = "none"
    /\ clean = TRUE
    /\ sameAsPrev = FALSE /\ prevClean = FALSE
    /\ rowsAtStart = Len(products)
    /\ termReads = 0 /\ readData = None
    /\ processed = <<>>

\* no call of _extract_work_id on its own is under way
ExtractionAtRest == extraction = [url |-> <<>>, done |-> TRUE, id |-> None]

\* the wire is not watched
WireAtRest ==
    wire = [now |-> 0, pc |-> "off", last_request_time |-> None, in_flight |-> 0,
            calls |-> 0, slept |-> 0, gap |-> None]

\* no second run
OtherAtRest ==
    other = [pc |-> "off", source_url |-> None, payload |-> None, existing |-> None]

\* no call of scrape_url
SingleAtRest ==
    single = [url |-> <<>>, outcome |-> "none", request |-> "none", value |-> None]

\* no entry point of the service has been called
ServiceAtRest ==
    service = [entry |-> "none", pc |-> "off", config |-> <<>>, environ |-> <<>>,
               access_token |-> None, readOk |-> TRUE, token |-> None,
               terms |-> "none", scrape |-> "none", scrapes |-> 0, closes |-> 0,
               exit |-> "none"]

\* no stored row is being refreshed
RefreshAtRest ==
    refresh = [pc |-> "off", rows |-> <<>>, work_data |-> <<>>, source_url |-> None,
               payload |-> None, existing |-> None, success |-> FALSE, after |-> <<>>]

\* what a handler of the collections API answers
Response200(op, product_ids, listing) ==
    [op |-> op, status |-> 200, detail |-> "", product_ids |-> product_ids,
     listing |-> listing, cascaded |-> 0]

\* no request has been made to the collections API: empty tables
CollAtRest ==
    coll = [collections |-> {}, junction |-> {}, issued |-> 0, clock |-> 0,
            resp |-> Response200("none", <<>>, {})]

\* no request has been made to the users API: no users
AccountsAtRest ==
    accounts = [users |-> {}, issued |-> 0, resp |-> [op |-> "none", status |-> 200, user |-> None]]

Init ==
    /\ api_key \in {None, <<"key">>}
    /\ products \in InitStores
    /\ upstream \in [WorkIds -> Responses]
    /\ ScrapeAtRest
    /\ ServiceAtRest
    /\ RefreshAtRest
    /\ CollAtRest
    /\ AccountsAtRest
    /\ ExtractionAtRest
    /\ WireAtRest
    /\ OtherAtRest
    /\ SingleAtRest

\* ---------------------------------------------------------------- actions
Truthy(opt) == opt # None /\ opt[1] # <<>>

\* `continue` / the end of one loop body (lines 267, 284, 290, 318, 324)
EndTarget(outcome) ==
    /\ i' = i + 1
    /\ pc' = "loop"
    /\ work_id' = None /\ source_url' = None /\ work_data' = None
    /\ product_payload' = None /\ existing' = None
    /\ lastOutcome' = outcome

\* a report for a missing key that leaves the status as it was
NoKeyReport_Success(res) == ("message" :> "API key not configured") @@ res

\* lines 240-242
NoKeyReport(res) ==
    ("message" :> "API key not configured") @@ [res EXCEPT !.status = "warning"]

\* a loader that hands the terms back last row first
LoadSearchTerms_Reversed(data, readOk) ==
    IF readOk
    THEN LET kept == SelectSeq(data, LAMBDA r : r.search_term # <<>>)
         IN  [n \in 1..Len(kept) |-> kept[Len(kept) + 1 - n].search_term]
    ELSE <<>>

\* lines 250-254: the search terms of platform goat, [] when the read raises
LoadSearchTerms(data, readOk) ==
    IF readOk
    THEN LET keep == {j \in 1..Len(data) : data[j].search_term # <<>>}
             Nth(n) == CHOOSE j \in keep : Cardinality({k \in keep : k < j}) = n - 1
         IN  [n \in 1..Cardinality(keep) |-> data[Nth(n)].search_term]
    ELSE <<>>

\* an early return that leaves the status as it was
NoTargetsReport_Success(res) == ("message" :> "No GOAT targets configured") @@ res

\* lines 257-261
NoTargetsReport(res) ==
    ("message" :> "No GOAT targets configured") @@ [res EXCEPT !.status = "warning"]

\* scrape(test_mode, test_limit, urls) is called and resolves its targets:
\* lines 228-263; data is what scraper_search_terms holds, readOk whether the
\* read succeeds
Scrape(mode, u, data, readOk) ==
    /\ pc \in {"idle", "done"}
    /\ (api_key # None /\ ~Truthy(u)) \/ (readOk /\ data = <<>>)
    /\ test_mode' = mode[1] /\ test_limit' = mode[2] /\ urls' = u
    /\ i' = 0
    /\ attempted' = 0 /\ fetches' = 0 /\ writes' = 0
    /\ rowsAtStart' = Len(products)
    /\ processed' = <<>>
    /\ LET reads == api_key # None /\ ~Truthy(u)
           loaded == IF api_key = None THEN <<>>
                     ELSE IF reads THEN LoadSearchTerms(data, readOk)
                     ELSE u[1]
           repeat == /\ pc = "done"
                     /\ <<mode[1], mode[2], u>> = <<test_mode, test_limit, urls>>
                     /\ loaded = targets
       IN  /\ targets' = loaded
           /\ termReads' = (IF reads THEN 1 ELSE 0)
           /\ readData' = (IF reads /\ readOk THEN Some(data) ELSE None)
           /\ sameAsPrev' = repeat
           /\ prevClean' = (repeat /\ clean)
           /\ clean' = (~reads \/ readOk)
           /\ lastOutcome' = IF api_key = None THEN "no_key"
                             ELSE IF ~reads THEN "urls_given"
                             ELSE IF ~readOk THEN "read_failed"
                             ELSE IF loaded = <<>> THEN "no_terms"
                             ELSE "terms_read"
           /\ IF api_key = None
              THEN /\ results' = NoKeyReport(NewResults)
                   /\ pc' = "done"
              ELSE IF loaded = <<>>
              THEN /\ results' = NoTargetsReport(NewResults)
                   /\ pc' = "done"
              ELSE /\ results' = NewResults
                   /\ pc' = "loop"
    /\ UNCHANGED <<env, products, upstream, locals>>

\* a cap that lets one target too many through
CapReached_OffByOne(idx) == test_mode /\ idx > test_limit[1]

\* line 268: test_mode and i >= test_limit
CapReached(idx) == test_mode /\ idx >= test_limit[1]

\* lines 273-280
ResolveWorkId(target) ==
    IF StartsWithHttp(target)
    THEN [source_url |-> target, work_id |-> _extract_work_id(target)]
    ELSE [source_url |-> None, work_id |-> Strip(target)]

\* lines 267-284: the loop head, the cap, and the resolution of the target
LoopHead ==
    /\ pc = "loop"
    /\ IF i >= Len(targets)
       THEN /\ pc' = "finalize"
            /\ UNCHANGED <<i, locals, attempted, lastOutcome, processed>>
       ELSE IF test_mode /\ test_limit = None
       THEN /\ pc' = "outer_except"       \* TypeError outside the inner try
            /\ UNCHANGED <<i, locals, attempted, lastOutcome, processed>>
       ELSE IF CapReached(i)
       THEN /\ pc' = "finalize"           \* break
            /\ UNCHANGED <<i, locals, attempted, lastOutcome, processed>>
       ELSE LET r == ResolveWorkId(targets[i + 1])
            IN  /\ attempted' = attempted + 1
                /\ processed' = Append(processed, targets[i + 1])
                /\ IF r.work_id = <<>>
                   THEN EndTarget("skipped")
                   ELSE /\ work_id' = r.work_id
                        /\ source_url' = r.source_url
                        /\ pc' = "fetch"
                        /\ UNCHANGED <<i, work_data, product_payload, existing,
                                       lastOutcome>>
    /\ UNCHANGED <<env, products, upstream, args, targets, results, fetches, writes,
                   clean, runGhosts>>

\* GOATScraper._fetch_work_details, lines 68-115, given what the request does
_fetch_work_details(wid, transport) ==
    IF api_key = None THEN None
    ELSE IF transport # "response" THEN None
    ELSE IF upstream[wid].status_code # 200 THEN None
    ELSE _parse_xml_response(upstream[wid].body, wid)

\* lines 287-292
Fetch ==
    /\ pc = "fetch"
    /\ \E transport \in Transports :
         LET wd == _fetch_work_details(work_id, transport)
         IN  /\ fetches' = fetches + 1
             /\ clean' = (clean /\ transport = "response")
             /\ IF wd = None
                THEN EndTarget(IF transport = "response"
                               THEN "fetch_null" ELSE "fetch_failed")
                ELSE /\ work_data' = wd
                     /\ pc' = "exists"
                     /\ UNCHANGED <<i, work_id, source_url, product_payload, existing,
                                    lastOutcome>>
    /\ UNCHANGED <<env, products, upstream, args, targets, results, attempted, writes,
                   runGhosts, processed>>

\* an existence key that ignores the payload's url
ProductUrl_WorkOnly(payload, wid) == CanonicalWorkUrl(wid)

\* line 298
ProductUrl(payload, wid) ==
    IF payload.url # None THEN payload.url ELSE CanonicalWorkUrl(wid)

\* a handler that gives up on the run
TargetExcept_Abort ==
    /\ pc' = "outer_except"
    /\ UNCHANGED <<i, locals, lastOutcome>>

\* lines 320-324: log and continue
TargetExcept == EndTarget("exception")

\* lines 294-299; the lookup answers, or the row store fails and it raises
ExistsCheck ==
    /\ pc = "exists"
    /\ \E lookupOk \in BOOLEAN :
         LET payload == _create_product_dict(work_data[1], source_url)
             product_url == ProductUrl(payload, work_id)
         IN  /\ clean' = (clean /\ lookupOk)
             /\ IF ~lookupOk
                THEN TargetExcept
                ELSE /\ product_payload' = Some(payload)
                     /\ existing' = _product_exists(products, product_url)
                     /\ pc' = "persist"
                     /\ UNCHANGED <<i, work_id, source_url, work_data, lastOutcome>>
    /\ UNCHANGED <<env, products, upstream, args, targets, results, attempted,
                   fetches, writes, runGhosts, processed>>

\* a count of the targets that were persisted
FoundAfter_OnSuccess(res, success) ==
    IF success THEN res.products_found + 1 ELSE res.products_found

\* a count that takes a persisted target twice
FoundAfter_Twice(res, success) ==
    IF success THEN res.products_found + 2 ELSE res.products_found + 1

\* line 318
FoundAfter(res, success) == res.products_found + 1

\* lines 301-318
Persist ==
    /\ pc = "persist"
    /\ \E success \in BOOLEAN :
         /\ writes' = writes + 1
         /\ clean' = (clean /\ success)
         /\ IF existing # None
            THEN /\ products' = IF success
                                THEN _update_product(products, existing[1].id,
                                                     product_payload[1])
                                ELSE products
                 /\ results' = [results EXCEPT
                        !.products_updated = IF success THEN @ + 1 ELSE @,
                        !.products_found = FoundAfter(results, success)]
                 /\ EndTarget(IF success THEN "updated" ELSE "update_failed")
            ELSE /\ products' = IF success
                                THEN _create_product(products, product_payload[1])
                                ELSE products
                 /\ results' = [results EXCEPT
                        !.products_added = IF success THEN @ + 1 ELSE @,
                        !.products_found = FoundAfter(results, success)]
                 /\ EndTarget(IF success THEN "added" ELSE "create_failed")
    /\ UNCHANGED <<env, upstream, args, targets, attempted, fetches, runGhosts,
                   processed>>

\* a report that stays 'success' whatever was found
FinalReport_Success(res) == ("message" :> "Scraped works") @@ res

\* lines 329-333
FinalReport(res) ==
    IF res.products_found = 0
    THEN ("message" :> "No works could be fetched") @@ [res EXCEPT !.status = "warning"]
    ELSE ("message" :> "Scraped works") @@ res

\* lines 326-335
Finalize ==
    /\ pc = "finalize"
    /\ results' = FinalReport(results)
    /\ pc' = "done"
    /\ UNCHANGED <<env, products, upstream, args, targets, i, locals, attempted,
                   fetches, writes, lastOutcome, clean, runGhosts, processed>>

\* a handler that lets the exception go on to the caller
OuterHandler_Reraise == [pc |-> "raised", results |-> results]

\* lines 337-347
OuterHandler == [pc |-> "done", results |-> ErrorReport]

OuterExcept ==
    /\ pc = "outer_except"
    /\ results' = OuterHandler.results
    /\ pc' = OuterHandler.pc
    /\ lastOutcome' = "escaped"
    /\ work_id' = None /\ source_url' = None /\ work_data' = None
    /\ product_payload' = None /\ existing' = None
    /\ UNCHANGED <<env, products, upstream, args, targets, i, attempted, fetches,
                   writes, clean, runGhosts, processed>>

\* a first call, with any arguments
Call(mode, u, data, readOk) == pc = "idle" /\ Scrape(mode, u, data, readOk)

\* the same call again, once the run before has returned
Repeat(data, readOk) ==
    pc = "done" /\ Scrape(<<test_mode, test_limit>>, urls, data, readOk)

RunStep ==
    \/ LoopHead
    \/ Fetch
    \/ ExistsCheck
    \/ Persist
    \/ Finalize
    \/ OuterExcept

Next ==
    \/ \E mode \in ModeInputs, u \in UrlsInputs, data \in SearchTermChoices,
          readOk \in BOOLEAN : Call(mode, u, data, readOk)
    \/ \E data \in SearchTermChoices, readOk \in BOOLEAN : Repeat(data, readOk)
    \/ LoopHead
    \/ Fetch
    \/ ExistsCheck
    \/ Persist
    \/ Finalize
    \/ OuterExcept

Spec == Init /\ [][Next]_vars

\* a call, once made, runs to its end: the event loop keeps scheduling it
FairSpec == Spec /\ WF_vars(RunStep)

\* ------------------------------------------------- work-id extraction alone
\* the path of a URL, token by token
PathTokens == {"/work/", "/book/", "1", "7", "someuser"}

\* LibraryThing URLs with any path of up to MaxPathLen tokens
UrlInputs ==
    {<<"https://", "www.librarything.com">> \o path : path \in SeqsUpTo(PathTokens, MaxPathLen)}

\* an adapter with a key, an empty table, an upstream that knows the work
QuietEnv ==
    /\ api_key = <<"key">>
    /\ products = <<>>
    /\ upstream = [w \in WorkIds |-> Response(200, OkBody(Title1))]

ExtractInit ==
    /\ QuietEnv
    /\ ScrapeAtRest
    /\ ServiceAtRest
    /\ RefreshAtRest
    /\ CollAtRest
    /\ AccountsAtRest
    /\ extraction \in {[url |-> u, done |-> FALSE, id |-> None] : u \in UrlInputs}
    /\ WireAtRest
    /\ OtherAtRest
    /\ SingleAtRest

\* match = re.search(...); return match.group(1) if match else None
Extract ==
    /\ ~extraction.done
    /\ extraction' = [extraction EXCEPT !.done = TRUE,
                                        !.id = _extract_work_id(extraction.url)]
    /\ UNCHANGED <<scrapeVars, wire, other, single, service, refresh, coll, accounts>>

ExtractNext == Extract

ExtractSpec == ExtractInit /\ [][ExtractNext]_vars

\* ------------------------------------------------ requests on the wire
REQUESTS_PER_MINUTE == 60

\* the upstream limit the adapter documents: 1000 requests a day (line 21)
DOCUMENTED_REQUESTS_PER_DAY == 1000

\* the minimum interval between two requests, in ticks of the clock
MinInterval == (60 * TicksPerSecond) \div REQUESTS_PER_MINUTE

\* BaseScraper._throttle_request: the time at which it returns when called at
\* `now`, having slept for what is left of the interval since the last request
_throttle_request(now, last) ==
    IF last # None /\ now - last[1] < MinInterval THEN last[1] + MinInterval ELSE now

\* a request issued without waiting for the throttle
TimeOfGet_Unthrottled(now, last) == now

\* lines 85-88: the request goes out when the throttle has returned
TimeOfGet(now, last) == _throttle_request(now, last)

WireInit ==
    /\ QuietEnv
    /\ ScrapeAtRest
    /\ ServiceAtRest
    /\ RefreshAtRest
    /\ CollAtRest
    /\ AccountsAtRest
    /\ ExtractionAtRest
    /\ OtherAtRest
    /\ SingleAtRest
    /\ wire = [now |-> 0, pc |-> "idle", last_request_time |-> None, in_flight |-> 0,
               calls |-> 0, slept |-> 0, gap |-> None]

\* time passes
Tick ==
    /\ wire.pc # "off"
    /\ wire.now < MaxTime
    /\ wire' = [wire EXCEPT !.now = @ + 1]
    /\ UNCHANGED <<scrapeVars, extraction, other, single, service, refresh, coll, accounts>>

\* _fetch_work_details is called (lines 68-83); the caller awaits it, so the
\* call before has returned
StartFetch ==
    /\ wire.pc = "idle"
    /\ wire.calls < MaxFetches
    /\ wire' = [wire EXCEPT !.pc = "throttle", !.calls = @ + 1]
    /\ UNCHANGED <<scrapeVars, extraction, other, single, service, refresh, coll, accounts>>

\* lines 85-88: await the throttle, then issue the request
ThrottledGet ==
    /\ wire.pc = "throttle"
    /\ LET at == TimeOfGet(wire.now, wire.last_request_time)
       IN  wire' = [wire EXCEPT
                      !.pc = "wait",
                      !.now = at,
                      !.slept = at - wire.now,
                      !.gap = IF wire.last_request_time = None THEN None
                              ELSE Some(at - wire.last_request_time[1]),
                      !.last_request_time = Some(at),
                      !.in_flight = @ + 1]
    /\ UNCHANGED <<scrapeVars, extraction, other, single, service, refresh, coll, accounts>>

\* lines 88-115: the response, a timeout or an error ends the request
Receive ==
    /\ wire.pc = "wait"
    /\ wire' = [wire EXCEPT !.pc = "idle", !.in_flight = @ - 1]
    /\ UNCHANGED <<scrapeVars, extraction, other, single, service, refresh, coll, accounts>>

WireNext == Tick \/ StartFetch \/ ThrottledGet \/ Receive

WireSpec == WireInit /\ [][WireNext]_vars

\* ------------------------------------------------- two runs on one table
\* a second run has fetched the work for a target of its own and is about to
\* check whether its product exists
RaceInit ==
    /\ api_key = <<"key">>
    /\ products \in InitStores
    /\ upstream = [w \in WorkIds |-> Response(200, OkBody(Title1))]
    /\ ScrapeAtRest
    /\ ServiceAtRest
    /\ RefreshAtRest
    /\ CollAtRest
    /\ AccountsAtRest
    /\ ExtractionAtRest
    /\ WireAtRest
    /\ SingleAtRest
    /\ other \in {[pc |-> "exists", source_url |-> u, payload |-> None, existing |-> None] :
                    u \in {None, EditionUrl1}}

\* lines 294-299 in the second run
OtherExists ==
    /\ other.pc = "exists"
    /\ LET wid == <<"1">>
           wd == _fetch_work_details(wid, "response")[1]
           payload == _create_product_dict(wd, other.source_url)
       IN  other' = [other EXCEPT
                       !.pc = "persist",
                       !.payload = Some(payload),
                       !.existing = _product_exists(products, ProductUrl(payload, wid))]
    /\ UNCHANGED <<scrapeVars, extraction, wire, single, service, refresh, coll, accounts>>

\* lines 301-316 in the second run
OtherPersist ==
    /\ other.pc = "persist"
    /\ products' = IF other.existing # None
                   THEN _update_product(products, other.existing[1].id, other.payload[1])
                   ELSE _create_product(products, other.payload[1])
    /\ other' = [other EXCEPT !.pc = "done"]
    /\ UNCHANGED <<scrapeRun, extraction, wire, single, service, refresh, coll, accounts>>

\* one call of scrape, and the second run's two steps at any time
RaceNext ==
    \/ \E mode \in ModeInputs, u \in UrlsInputs, data \in SearchTermChoices,
          readOk \in BOOLEAN : Call(mode, u, data, readOk)
    \/ RunStep
    \/ OtherExists
    \/ OtherPersist

RaceSpec == RaceInit /\ [][RaceNext]_vars

\* ------------------------------------------------------ single-item fetch
Returned(v) == [outcome |-> "returned", value |-> v]

\* a scrape_url that makes a record of whatever it has
scrape_url_Placeholder(url, transport) ==
    LET wid == _extract_work_id(url)
    IN  IF wid = None THEN Returned(None)
        ELSE LET wd == _fetch_work_details(wid, transport)
                 have == IF wd = None
                         THEN [work_id |-> wid, url |-> CanonicalWorkUrl(wid)]
                         ELSE wd[1]
             IN  Returned(Some(_create_product_dict(have, url)))

\* GOATScraper.scrape_url, lines 43-61, given what the request does
scrape_url(url, transport) ==
    LET wid == _extract_work_id(url)
    IN  IF wid = None THEN Returned(None)                       \* lines 50-51
        ELSE LET wd == _fetch_work_details(wid, transport)
             IN  IF wd = None THEN Returned(None)               \* lines 55-56
                 ELSE Returned(Some(_create_product_dict(wd[1], url)))

\* whether the call gets as far as issuing a request (lines 50, 71, 88)
IssuesRequest(url) == _extract_work_id(url) # None /\ api_key # None

UrlInit ==
    /\ api_key \in {None, <<"key">>}
    /\ products = <<>>
    /\ upstream \in [WorkIds -> Responses]
    /\ ScrapeAtRest
    /\ ServiceAtRest
    /\ RefreshAtRest
    /\ CollAtRest
    /\ AccountsAtRest
    /\ ExtractionAtRest
    /\ WireAtRest
    /\ OtherAtRest
    /\ single \in {[url |-> u, outcome |-> "pending", request |-> "none", value |-> None] :
                     u \in TargetUniverse}

ScrapeUrl ==
    /\ single.outcome = "pending"
    /\ \E transport \in Transports :
         LET r == scrape_url(single.url, transport)
         IN  single' = [single EXCEPT
                          !.outcome = r.outcome,
                          !.value = r.value,
                          !.request = IF IssuesRequest(single.url)
                                      THEN transport ELSE "none"]
    /\ UNCHANGED <<scrapeVars, extraction, wire, other, service, refresh, coll, accounts>>

UrlNext == ScrapeUrl

UrlSpec == UrlInit /\ [][UrlNext]_vars


\* ---------------------------------------------------- orchestration service
Entries == {"github", "thingiverse", "ravelry", "abledata", "goat"}

StoredTokenValue == <<"stored-token">>

\* what the oauth_configs table may hold for platform = github
ConfigChoices ==
    {<<>>,
     <<[access_token |-> StoredTokenValue]>>,
     <<[access_token |-> None]>>,
     <<[access_token |-> None], [access_token |-> StoredTokenValue]>>}

\* the process environment: each variable set or not
Environs ==
    [GITHUB_TOKEN : {None, <<"env-token">>},
     GITHUB_ACCESS_TOKEN : {None, <<"env-access-token">>}]

\* lines 120-124: the token of the first record read, None when the read raises
StoredToken(config, readOk) ==
    IF ~readOk THEN None
    ELSE IF config = <<>> THEN None
    ELSE config[1].access_token

\* line 127
EnvToken(environ) ==
    IF environ.GITHUB_TOKEN # None THEN environ.GITHUB_TOKEN
    ELSE environ.GITHUB_ACCESS_TOKEN

\* a resolution that looks at the environment first
ResolveToken_EnvFirst(config, readOk, environ) ==
    IF EnvToken(environ) # None THEN EnvToken(environ) ELSE StoredToken(config, readOk)

\* lines 118-127
ResolveToken(config, readOk, environ) ==
    IF StoredToken(config, readOk) # None THEN StoredToken(config, readOk)
    ELSE EnvToken(environ)

ServiceInit ==
    /\ QuietEnv
    /\ ScrapeAtRest
    /\ ExtractionAtRest
    /\ WireAtRest
    /\ OtherAtRest
    /\ SingleAtRest
    /\ RefreshAtRest
    /\ CollAtRest
    /\ AccountsAtRest
    /\ service \in
          {[entry |-> e, pc |-> "enter", config |-> c, environ |-> v,
            access_token |-> a, readOk |-> TRUE, token |-> None,
            terms |-> "none", scrape |-> "none", scrapes |-> 0, closes |-> 0,
            exit |-> "none"] :
               e \in Entries, c \in ConfigChoices, v \in Environs,
               a \in {None, <<"given-token">>}}

\* the adapter is constructed with its token: lines 77, 98, 118-129, 150, 167
Construct ==
    /\ service.pc = "enter"
    /\ \E readOk \in BOOLEAN :
         /\ (service.entry # "github") => readOk
         /\ service' = [service EXCEPT
                !.readOk = readOk,
                !.token = CASE service.entry = "github" ->
                                   ResolveToken(service.config, readOk, service.environ)
                            [] service.entry = "abledata" -> None
                            [] OTHER -> service.access_token,
                !.pc = IF service.entry = "goat" THEN "scrape" ELSE "terms"]
    /\ UNCHANGED <<scrapeVars, api_key, extraction, wire, other, single, refresh, coll, accounts>>

\* the persisted search terms are loaded inside try/except-pass:
\* lines 79-89, 100-109, 131-141, 152-158
LoadTerms ==
    /\ service.pc = "terms"
    /\ \E outcome \in {"stored", "default", "failed"} :
         service' = [service EXCEPT !.terms = outcome, !.pc = "scrape"]
    /\ UNCHANGED <<scrapeVars, api_key, extraction, wire, other, single, refresh, coll, accounts>>

\* a body without finally: the adapter is closed on the way out of a return only
AfterScrape_NoFinally(outcome) == IF outcome = "raised" THEN "exit" ELSE "finally"

\* try: result = await scraper.scrape(...); return result / finally: close()
AfterScrape(outcome) == "finally"

\* lines 90-92, 110-112, 142-144, 159-161, 170-172: the bulk scrape returns a
\* report or raises
RunScrape ==
    /\ service.pc = "scrape"
    /\ \E outcome \in {"returned", "raised"} :
         service' = [service EXCEPT
                !.scrape = outcome,
                !.scrapes = @ + 1,
                !.exit = IF AfterScrape(outcome) = "exit" THEN outcome ELSE @,
                !.pc = AfterScrape(outcome)]
    /\ UNCHANGED <<scrapeVars, api_key, extraction, wire, other, single, refresh, coll, accounts>>

\* lines 93-94, 113-114, 145-146, 162-163, 173-174: await scraper.close(), then
\* the report is returned or the exception goes on
Close ==
    /\ service.pc = "finally"
    /\ service' = [service EXCEPT !.closes = @ + 1, !.exit = service.scrape, !.pc = "exit"]
    /\ UNCHANGED <<scrapeVars, api_key, extraction, wire, other, single, refresh, coll, accounts>>

ServiceNext == Construct \/ LoadTerms \/ RunScrape \/ Close

ServiceSpec == ServiceInit /\ [][ServiceNext]_vars


\* ------------------------------------------------ a stored row met again
\* what _parse_xml_response returns for work 1 (lines 179-189): every field
\* but the title may be missing upstream
WorkDatas ==
    {[work_id |-> <<"1">>, title |-> Strip(Title1), author |-> a, description |-> d,
      image_url |-> c, language |-> l, publication_year |-> y,
      url |-> CanonicalWorkUrl(<<"1">>)] :
         a \in {None, <<"Author">>}, d \in {None, <<"new-description">>},
         c \in {None, <<"new-cover">>}, l \in {None, <<"eng">>},
         y \in {None, <<"1999">>}}

\* the rows an earlier scrape of work 1 may have left
StoredRows ==
    {[id |-> 1, name |-> <<"Old title">>, description |-> d, source |-> "GOAT",
      url |-> CanonicalWorkUrl(<<"1">>), image |-> c, type |-> "Book",
      external_id |-> <<"1">>] :
         d \in {None, <<"stored-description">>}, c \in {None, <<"stored-cover">>}}

RefreshInit ==
    /\ QuietEnv
    /\ ScrapeAtRest
    /\ ExtractionAtRest
    /\ WireAtRest
    /\ OtherAtRest
    /\ SingleAtRest
    /\ ServiceAtRest
    /\ CollAtRest
    /\ AccountsAtRest
    /\ refresh \in
          {[pc |-> "found", rows |-> <<r>>, work_data |-> wd, source_url |-> None,
            payload |-> None, existing |-> None, success |-> FALSE, after |-> <<>>] :
               r \in StoredRows, wd \in WorkDatas}

\* lines 296-308: the payload is built, the row is looked up under its url
\* and, being there, updated; the write succeeds or fails
Refresh ==
    /\ refresh.pc = "found"
    /\ \E ok \in BOOLEAN :
         LET payload == _create_product_dict(refresh.work_data, refresh.source_url)
             found == _product_exists(refresh.rows,
                                      ProductUrl(payload, refresh.work_data.work_id))
         IN  /\ found # None
             /\ refresh' = [refresh EXCEPT
                    !.payload = Some(payload),
                    !.existing = found,
                    !.success = ok,
                    !.after = IF ok THEN _update_product(refresh.rows, found[1].id, payload)
                              ELSE refresh.rows,
                    !.pc = "done"]
    /\ UNCHANGED <<scrapeVars, api_key, extraction, wire, other, single, service, coll, accounts>>

RefreshNext == Refresh

RefreshSpec == RefreshInit /\ [][RefreshNext]_vars

\* -------------------------------------------------------- collections API
\* the callers of the API: two authenticated users and a request without a token
Users == {"u1", "u2"}
Callers == Users \cup {"anon"}

\* the products table
ProductRows == {[id |-> "P1", slug |-> "chair"], [id |-> "P2", slug |-> "cane"]}

\* the identifiers a request may name a product by: a UUID, a slug, an unknown slug
ProductIdentifiers == {"P1", "cane", "ghost"}

\* uuid.UUID(str(value)) accepts the value: lines 19-25
_looks_like_uuid(value) == value \in {"P1", "P2"}

\* the ids uuid4 hands out, in the order it hands them out
CollectionIds == <<"C1", "C2">>

\* the slugs generate_id_with_uniqueness_check can make of the name
SlugCandidates == <<"my-list", "my-list-2">>

\* the identifiers a request may name a collection by: a slug, a UUID, an unknown one
CollectionIdentifiers == {"my-list", "C2", "nope"}

\* the product lists of a bulk request
ProductLists == SeqsUpTo(ProductIdentifiers, MaxBulk)

\* an HTTPException: the tables stay as they are
Deny(s, op, code, detail) ==
    [s EXCEPT !.resp = [op |-> op, status |-> code, detail |-> detail,
                        product_ids |-> <<>>, listing |-> {}, cascaded |-> 0]]

\* lines 368-376: by slug first, then by id, else 404
_get_collection_by_slug_or_id(s, slug_or_id) ==
    LET bySlug == {c \in s.collections : c.slug = slug_or_id}
        byId == {c \in s.collections : c.id = slug_or_id}
    IN  IF bySlug # {} THEN Some(CHOOSE c \in bySlug : TRUE)
        ELSE IF byId # {} THEN Some(CHOOSE c \in byId : TRUE)
        ELSE None

\* lines 573-581 (also 626-634, 712-721): the product by id when the
\* identifier looks like a UUID, by slug otherwise
ResolveProduct(identifier) ==
    LET hits == IF _looks_like_uuid(identifier)
                THEN {p \in ProductRows : p.id = identifier}
                ELSE {p \in ProductRows : p.slug = identifier}
    IN  IF hits = {} THEN None ELSE Some((CHOOSE p \in hits : TRUE).id)

JunctionOf(s, collection_id) == {r \in s.junction : r.collection_id = collection_id}

RECURSIVE ByPosition(_)
\* .order("position")
ByPosition(rows) ==
    IF rows = {} THEN <<>>
    ELSE LET first == CHOOSE r \in rows : \A q \in rows : r.position <= q.position
         IN  <<first>> \o ByPosition(rows \ {first})

\* lines 349-351 (also 462-463): the product ids of a collection, by position
ProductIdsOf(s, collection_id) ==
    LET rows == ByPosition(JunctionOf(s, collection_id))
    IN  [j \in 1..Len(rows) |-> rows[j].product_id]

\* _get_collection_with_products, lines 341-365
_get_collection_with_products(s, op, collection_id) ==
    IF \A c \in s.collections : c.id # collection_id THEN Deny(s, op, 404, "Collection not found")
    ELSE [s EXCEPT !.resp = Response200(op, ProductIdsOf(s, collection_id), {})]

\* a position taken from the number of rows
NextPosition_Count(s, collection_id) == Cardinality(JunctionOf(s, collection_id))

\* lines 589-591 (also 745-746): one more than the highest position, 0 when empty
NextPosition(s, collection_id) ==
    LET rows == JunctionOf(s, collection_id)
    IN  IF rows = {} THEN 0
        ELSE (CHOOSE r \in rows : \A q \in rows : q.position <= r.position).position + 1

\* lines 600-603 (also 497, 643-646, 675-678, 755-758): updated_at = now
Stamp(s, collection_id) ==
    [s EXCEPT !.clock = @ + 1,
              !.collections = {IF c.id = collection_id
                               THEN [c EXCEPT !.updated_at = s.clock + 1] ELSE c :
                                  c \in s.collections}]

\* the junction records of products put at next_position + idx: lines 748-753
JunctionRecords(collection_id, product_ids, next_position) ==
    {[collection_id |-> collection_id, product_id |-> product_ids[j],
      position |-> next_position + j - 1] : j \in 1..Len(product_ids)}

\* an ownership check that lets every authenticated user through
IsOwner_Anyone(collection, caller) == TRUE

\* lines 482-483 (also 538-539, 569-570, 639-640, 668-669, 705-706)
IsOwner(collection, caller) == collection.user_id = caller

\* an access check that lets every authenticated user see a private collection
CanView_Authenticated(collection, caller) == collection.is_public \/ caller # "anon"

\* lines 456-458
CanView(collection, caller) == collection.is_public \/ caller = collection.user_id

\* lines 54 and 56-64: a fresh id, a slug no collection has, the creator as owner
NewCollection(s, caller, is_public) ==
    LET free == {j \in 1..Len(SlugCandidates) :
                    \A c \in s.collections : c.slug # SlugCandidates[j]}
    IN  [id |-> CollectionIds[s.issued + 1],
         slug |-> SlugCandidates[CHOOSE j \in free : \A k \in free : j <= k],
         user_id |-> caller, is_public |-> is_public, updated_at |-> 0]

\* create_collection, lines 28-75
create_collection(s, caller, is_public) ==
    IF caller = "anon" THEN Deny(s, "create", 401, "Not authenticated")
    ELSE LET c == NewCollection(s, caller, is_public)
         IN  [s EXCEPT !.collections = @ \cup {c}, !.issued = @ + 1,
                       !.resp = [Response200("create", <<>>, {}) EXCEPT !.status = 201]]

\* create_collection_from_search, lines 78-243, given what the search finds
create_collection_from_search(s, caller, is_public, product_ids) ==
    IF caller = "anon" THEN Deny(s, "create_from_search", 401, "Not authenticated")
    ELSE LET c == NewCollection(s, caller, is_public)
         IN  [s EXCEPT !.collections = @ \cup {c}, !.issued = @ + 1,
                       !.junction = @ \cup JunctionRecords(c.id, product_ids, 0),
                       !.resp = [Response200("create_from_search", product_ids, {})
                                     EXCEPT !.status = 201]]

\* get_public_collections, lines 404-440
get_public_collections(s) ==
    [s EXCEPT !.resp = Response200("list_public", <<>>,
                                   {c \in s.collections : c.is_public = TRUE})]

\* get_collection, lines 443-465
get_collection(s, caller, collection_slug) ==
    LET found == _get_collection_by_slug_or_id(s, collection_slug)
    IN  IF found = None THEN Deny(s, "get", 404, "Collection not found")
        ELSE IF ~CanView(found[1], caller) THEN Deny(s, "get", 403, "Access denied")
        ELSE [s EXCEPT !.resp = Response200("get",
                                            ProductIdsOf(s, found[1].id), {found[1]})]

\* update_collection, lines 468-522; is_public None is a request without it
update_collection(s, caller, collection_slug, is_public) ==
    IF caller = "anon" THEN Deny(s, "update", 401, "Not authenticated")
    ELSE LET found == _get_collection_by_slug_or_id(s, collection_slug)
         IN  IF found = None THEN Deny(s, "update", 404, "Collection not found")
             ELSE IF ~IsOwner(found[1], caller) THEN Deny(s, "update", 403, "Only the owner")
             ELSE LET updated == [found[1] EXCEPT
                                     !.is_public = IF is_public = None THEN @
                                                   ELSE is_public[1],
                                     !.updated_at = s.clock + 1]
                  IN  [s EXCEPT !.clock = @ + 1,
                                !.collections = (@ \ {found[1]}) \cup {updated},
                                !.resp = Response200("update",
                                                     ProductIdsOf(s, updated.id), {updated})]

\* a delete that leaves the junction rows of the collection behind
DeleteCollectionRow_NoCascade(s, collection_id) ==
    [s EXCEPT !.collections = {c \in @ : c.id # collection_id}]

\* line 543: the row is deleted, and with it the junction rows that refer to
\* it (the store cascades: test_junction_table_cascade_delete); the response
\* notes how many rows went with it
DeleteCollectionRow(s, collection_id) ==
    [s EXCEPT !.collections = {c \in @ : c.id # collection_id},
              !.junction = {r \in @ : r.collection_id # collection_id}]

\* delete_collection, lines 525-545
delete_collection(s, caller, collection_slug) ==
    IF caller = "anon" THEN Deny(s, "delete", 401, "Not authenticated")
    ELSE LET found == _get_collection_by_slug_or_id(s, collection_slug)
         IN  IF found = None THEN Deny(s, "delete", 404, "Collection not found")
             ELSE IF ~IsOwner(found[1], caller) THEN Deny(s, "delete", 403, "Only the owner")
             ELSE [DeleteCollectionRow(s, found[1].id) EXCEPT
                      !.resp = [Response200("delete", <<>>, {}) EXCEPT
                                   !.status = 204,
                                   !.cascaded = Cardinality(JunctionOf(s, found[1].id))]]

\* add_product_to_collection, lines 548-606
add_product_to_collection(s, caller, collection_slug, product_slug) ==
    IF caller = "anon" THEN Deny(s, "add", 401, "Not authenticated")
    ELSE LET found == _get_collection_by_slug_or_id(s, collection_slug)
         IN  IF found = None THEN Deny(s, "add", 404, "Collection not found")
             ELSE IF ~IsOwner(found[1], caller) THEN Deny(s, "add", 403, "Only the owner")
             ELSE LET product == ResolveProduct(product_slug)
                      cid == found[1].id
                  IN  IF product = None THEN Deny(s, "add", 404, "Product not found")
                      ELSE IF \E r \in JunctionOf(s, cid) : r.product_id = product[1]
                      THEN _get_collection_with_products(s, "add", cid)
                      ELSE _get_collection_with_products(
                               Stamp([s EXCEPT !.junction = @ \cup
                                         JunctionRecords(cid, product,
                                                         NextPosition(s, cid))], cid),
                               "add", cid)

\* remove_product_from_collection, lines 609-649
remove_product_from_collection(s, caller, collection_slug, product_slug) ==
    IF caller = "anon" THEN Deny(s, "remove", 401, "Not authenticated")
    ELSE LET found == _get_collection_by_slug_or_id(s, collection_slug)
         IN  IF found = None THEN Deny(s, "remove", 404, "Collection not found")
             ELSE LET product == ResolveProduct(product_slug)
                      cid == found[1].id
                  IN  IF product = None THEN Deny(s, "remove", 404, "Product not found")
                      ELSE IF ~IsOwner(found[1], caller) THEN Deny(s, "remove", 403, "Only the owner")
                      ELSE _get_collection_with_products(
                               Stamp([s EXCEPT !.junction =
                                         {r \in @ : ~(r.collection_id = cid
                                                      /\ r.product_id = product[1])}], cid),
                               "remove", cid)

\* remove_all_products_from_collection, lines 652-681
remove_all_products_from_collection(s, caller, collection_slug) ==
    IF caller = "anon" THEN Deny(s, "remove_all", 401, "Not authenticated")
    ELSE LET found == _get_collection_by_slug_or_id(s, collection_slug)
         IN  IF found = None THEN Deny(s, "remove_all", 404, "Collection not found")
             ELSE IF ~IsOwner(found[1], caller) THEN Deny(s, "remove_all", 403, "Only the owner")
             ELSE _get_collection_with_products(
                      Stamp([s EXCEPT !.junction =
                                {r \in @ : r.collection_id # found[1].id}], found[1].id),
                      "remove_all", found[1].id)

\* a resolution that passes over the identifiers it cannot resolve
ResolveAll_SkipUnknown(product_ids) ==
    LET known == SelectSeq(product_ids, LAMBDA x : ResolveProduct(x) # None)
    IN  Some([j \in 1..Len(known) |-> ResolveProduct(known[j])[1]])

\* lines 712-725: every identifier resolved, or none when one is unknown (404)
ResolveAll(product_ids) ==
    IF \E j \in 1..Len(product_ids) : ResolveProduct(product_ids[j]) = None THEN None
    ELSE Some([j \in 1..Len(product_ids) |-> ResolveProduct(product_ids[j])[1]])

\* a list taken as it comes
Deduplicate_Keep(ids) == ids

\* lines 727-734: the first occurrence of each id, in order
Deduplicate(ids) ==
    LET firsts == {j \in 1..Len(ids) : \A k \in 1..(j - 1) : ids[k] # ids[j]}
        Nth(n) == CHOOSE j \in firsts : Cardinality({k \in firsts : k < j}) = n - 1
    IN  [n \in 1..Cardinality(firsts) |-> ids[Nth(n)]]

\* add_multiple_products_to_collection, lines 684-761
add_multiple_products_to_collection(s, caller, collection_slug, product_ids) ==
    IF caller = "anon" THEN Deny(s, "add_multiple", 401, "Not authenticated")
    ELSE LET found == _get_collection_by_slug_or_id(s, collection_slug)
         IN  IF found = None THEN Deny(s, "add_multiple", 404, "Collection not found")
             ELSE IF ~IsOwner(found[1], caller) THEN Deny(s, "add_multiple", 403, "Only the owner")
             ELSE IF product_ids = <<>>
             THEN _get_collection_with_products(s, "add_multiple", found[1].id)
             ELSE LET resolved == ResolveAll(product_ids)
                      cid == found[1].id
                  IN  IF resolved = None THEN Deny(s, "add_multiple", 404, "Product not found")
                      ELSE LET existing_product_ids ==
                                   {r.product_id : r \in JunctionOf(s, cid)}
                               new_products ==
                                   SelectSeq(Deduplicate(resolved[1]),
                                             LAMBDA x : x \notin existing_product_ids)
                           IN  IF new_products = <<>>
                               THEN _get_collection_with_products(s, "add_multiple", cid)
                               ELSE _get_collection_with_products(
                                        Stamp([s EXCEPT !.junction = @ \cup
                                                  JunctionRecords(cid, new_products,
                                                                  NextPosition(s, cid))],
                                              cid),
                                        "add_multiple", cid)

CollInit ==
    /\ QuietEnv
    /\ ScrapeAtRest
    /\ ServiceAtRest
    /\ RefreshAtRest
    /\ ExtractionAtRest
    /\ WireAtRest
    /\ OtherAtRest
    /\ SingleAtRest
    /\ AccountsAtRest
    /\ CollAtRest

\* what no request to the collections API changes
notColl == <<scrapeVars, api_key, extraction, wire, other, single, service, refresh,
             accounts>>

\* each request is handled as a whole; the clock stays within its bound
\* create_collection is called, by one of these callers with one of these
\* visibilities
CreateCollection(creators, visibilities) ==
    /\ coll.issued < Len(CollectionIds)
    /\ \E caller \in creators, is_public \in visibilities :
         coll' = create_collection(coll, caller, is_public)
    /\ coll'.clock <= MaxClock
    /\ UNCHANGED notColl

\* create_collection_from_search is called
CreateCollectionFromSearch(creators, visibilities) ==
    /\ coll.issued < Len(CollectionIds)
    /\ \E caller \in creators, is_public \in visibilities, product_ids \in {<<>>, <<"P1">>, <<"P2", "P1">>} :
         coll' = create_collection_from_search(coll, caller, is_public, product_ids)
    /\ coll'.clock <= MaxClock
    /\ UNCHANGED notColl

\* get_public_collections is called
GetPublicCollections ==
    /\ coll' = get_public_collections(coll)
    /\ coll'.clock <= MaxClock
    /\ UNCHANGED notColl

\* get_collection is called
GetCollection ==
    /\ \E caller \in Callers, slug \in CollectionIdentifiers :
         coll' = get_collection(coll, caller, slug)
    /\ coll'.clock <= MaxClock
    /\ UNCHANGED notColl

\* update_collection is called, with one of these visibilities
UpdateCollection(visibilities) ==
    /\ \E caller \in Callers, slug \in CollectionIdentifiers, is_public \in visibilities :
         coll' = update_collection(coll, caller, slug, is_public)
    /\ coll'.clock <= MaxClock
    /\ UNCHANGED notColl

\* delete_collection is called
DeleteCollection ==
    /\ \E caller \in Callers, slug \in CollectionIdentifiers :
         coll' = delete_collection(coll, caller, slug)
    /\ coll'.clock <= MaxClock
    /\ UNCHANGED notColl

\* add_product_to_collection is called
AddProductToCollection ==
    /\ \E caller \in Callers, slug \in CollectionIdentifiers,
          product \in ProductIdentifiers :
         coll' = add_product_to_collection(coll, caller, slug, product)
    /\ coll'.clock <= MaxClock
    /\ UNCHANGED notColl

\* remove_product_from_collection is called
RemoveProductFromCollection ==
    /\ \E caller \in Callers, slug \in CollectionIdentifiers,
          product \in ProductIdentifiers :
         coll' = remove_product_from_collection(coll, caller, slug, product)
    /\ coll'.clock <= MaxClock
    /\ UNCHANGED notColl

\* remove_all_products_from_collection is called
RemoveAllProductsFromCollection ==
    /\ \E caller \in Callers, slug \in CollectionIdentifiers :
         coll' = remove_all_products_from_collection(coll, caller, slug)
    /\ coll'.clock <= MaxClock
    /\ UNCHANGED notColl

\* add_multiple_products_to_collection is called
AddMultipleProductsToCollection ==
    /\ \E caller \in Callers, slug \in CollectionIdentifiers,
          product_ids \in ProductLists :
         coll' = add_multiple_products_to_collection(coll, caller, slug, product_ids)
    /\ coll'.clock <= MaxClock
    /\ UNCHANGED notColl

\* membership: the owner-side requests on the products of collections that
\* u1 made public; u2 only ever meets other people's collections
MembershipNext ==
    \/ CreateCollection({"u1", "anon"}, {TRUE})
    \/ CreateCollectionFromSearch({"u1", "anon"}, {TRUE})
    \/ UpdateCollection({None})
    \/ DeleteCollection
    \/ AddProductToCollection
    \/ RemoveProductFromCollection
    \/ RemoveAllProductsFromCollection
    \/ AddMultipleProductsToCollection

MembershipSpec == CollInit /\ [][MembershipNext]_vars

\* visibility: collections of any caller, public or private, made, changed,
\* fetched and listed
VisibilityNext ==
    \/ CreateCollection(Callers, BOOLEAN)
    \/ UpdateCollection({None, Some(TRUE), Some(FALSE)})
    \/ GetPublicCollections
    \/ GetCollection

VisibilitySpec == CollInit /\ [][VisibilityNext]_vars

\* -------------------------------------------------------------- users API
\* who may call: no token, the seeded admin, a second account
UserCallers == {"anon", "U0", "U1"}

\* uuid.UUID(str(value)) accepts the value: users.py lines 22-27
LooksLikeUserId(value) == value \in {"U0", "U1", "N1"}

\* the identifiers of a request path
UserIdentifiers == {"root", "alice", "U1"}
Roles == {"user", "moderator", "admin"}

UserReply(op, caller, identifier, status, user) ==
    [op |-> op, caller |-> caller, identifier |-> identifier, status |-> status,
     user |-> user]

\* current_user as the token gives it: the role the users table has for the id
CurrentRole(s, caller) ==
    IF \E u \in s.users : u.id = caller
    THEN (CHOOSE u \in s.users : u.id = caller).role
    ELSE "user"

\* lines 30-39, without the 404: by username, else by id when the identifier
\* looks like a UUID
FindUser(s, identifier) ==
    LET byName == {u \in s.users : u.username = identifier}
        byId == {u \in s.users : u.id = identifier}
    IN  IF byName # {} THEN Some(CHOOSE u \in byName : TRUE)
        ELSE IF LooksLikeUserId(identifier) /\ byId # {} THEN Some(CHOOSE u \in byId : TRUE)
        ELSE None

\* _get_user_by_identifier answered through a handler: the user or 404
_get_user_by_identifier(s, op, caller, identifier) ==
    IF FindUser(s, identifier) = None
    THEN [s EXCEPT !.resp = UserReply(op, caller, identifier, 404, None)]
    ELSE [s EXCEPT !.resp = UserReply(op, caller, identifier, 200,
                                      FindUser(s, identifier))]

\* the GET routes of the router, in the order the decorators register them:
\* lines 72, 109, 154, 183
GetRoutes ==
    <<[path |-> <<"me">>, handler |-> "get_current_user_profile"],
      [path |-> <<"{}">>, handler |-> "get_user_account_first"],
      [path |-> <<"{}">>, handler |-> "get_user_account_second"],
      [path |-> <<"by-username", "{}">>, handler |-> "get_user_by_username"]>>

\* the router hands the request to the first route that matches
Dispatch(routes, path) ==
    LET PathMatches(pattern) ==
            /\ Len(pattern) = Len(path)
            /\ \A j \in 1..Len(path) : pattern[j] = "{}" \/ pattern[j] = path[j]
        hits == {j \in 1..Len(routes) : PathMatches(routes[j].path)}
    IN  routes[CHOOSE j \in hits : \A k \in hits : j <= k].handler

\* lines 72-106: the profile of the caller
get_current_user_profile(s, caller) ==
    IF caller = "anon" THEN [s EXCEPT !.resp = UserReply("me", caller, "me", 401, None)]
    ELSE IF \A u \in s.users : u.id # caller
    THEN [s EXCEPT !.resp = UserReply("me", caller, "me", 404, None)]
    ELSE [s EXCEPT !.resp = UserReply("me", caller, "me", 200,
                                      Some(CHOOSE u \in s.users : u.id = caller))]

\* lines 109-151, the first function registered for GET /{identifier}: its
\* body reads current_user, which is neither a parameter nor a global, so
\* the call ends in a NameError and the server answers 500
get_user_account_first(s, caller, identifier) ==
    [s EXCEPT !.resp = UserReply("get_user_account", caller, identifier, 500, None)]

\* lines 154-180, the second function registered for GET /{identifier}
get_user_account_second(s, caller, identifier) ==
    _get_user_by_identifier(s, "get_user_account", caller, identifier)

\* lines 183-211
get_user_by_username(s, caller, username) ==
    _get_user_by_identifier(s, "get_user_by_username", caller, username)

\* create_or_update_user_account, lines 214-310; a write the users table
\* rejects ends in the 500 of line 286: it rejects an id another row has,
\* and a username another row has when unique_usernames says the table
\* enforces that (its schema is not part of the router)
create_or_update_user_account(s, caller, identifier, username, TEST_MODE, unique_usernames) ==
    LET existing_user == FindUser(s, identifier)
        is_update == existing_user # None
        op == "create_or_update"
    IN  IF ~TEST_MODE /\ is_update /\ caller = "anon"
        THEN [s EXCEPT !.resp = UserReply(op, caller, identifier, 401, None)]
        ELSE IF is_update /\ caller # "anon" /\ CurrentRole(s, caller) # "admin"
                /\ caller # existing_user[1].id
        THEN [s EXCEPT !.resp = UserReply(op, caller, identifier, 403, None)]
        ELSE LET user_id == IF caller # "anon" THEN caller
                            ELSE IF is_update THEN existing_user[1].id
                            ELSE IF LooksLikeUserId(identifier) THEN identifier
                            ELSE "N1"
             IN  IF is_update
                 THEN IF /\ unique_usernames
                         /\ \E u \in s.users : u.id # existing_user[1].id
                                                /\ u.username = username
                      THEN [s EXCEPT !.resp = UserReply(op, caller, identifier, 500, None)]
                      ELSE LET updated == [existing_user[1] EXCEPT !.username = username]
                           IN  [s EXCEPT !.users = (@ \ {existing_user[1]}) \cup {updated},
                                         !.resp = UserReply(op, caller, identifier, 200,
                                                            Some(updated))]
                 ELSE IF \E u \in s.users : \/ u.id = user_id
                                                   \/ /\ unique_usernames
                                                      /\ u.username = username
                      THEN [s EXCEPT !.resp = UserReply(op, caller, identifier, 500, None)]
                      ELSE LET payload == [id |-> user_id, username |-> username,
                                           role |-> "user"]
                           IN  [s EXCEPT !.users = @ \cup {payload},
                                         !.resp = UserReply(op, caller, identifier, 200,
                                                            Some(payload))]

\* a policy helper that lets every authenticated caller through
ensure_admin_Authenticated(s, caller) == TRUE

\* ensure_admin(current_user), called at line 329: only an admin passes
ensure_admin(s, caller) == CurrentRole(s, caller) = "admin"

\* update_user_role, lines 313-350
update_user_role(s, caller, username, new_role) ==
    LET op == "update_role"
    IN  IF caller = "anon" THEN [s EXCEPT !.resp = UserReply(op, caller, username, 401, None)]
        ELSE IF new_role \notin Roles
        THEN [s EXCEPT !.resp = UserReply(op, caller, username, 400, None)]
        ELSE IF ~ensure_admin(s, caller)
        THEN [s EXCEPT !.resp = UserReply(op, caller, username, 403, None)]
        ELSE LET target_user == FindUser(s, username)
             IN  IF target_user = None
                 THEN [s EXCEPT !.resp = UserReply(op, caller, username, 404, None)]
                 ELSE LET updated == [target_user[1] EXCEPT !.role = new_role]
                      IN  [s EXCEPT !.users = (@ \ {target_user[1]}) \cup {updated},
                                    !.resp = UserReply(op, caller, username, 200,
                                                       Some(updated))]

UsersInit ==
    /\ QuietEnv
    /\ ScrapeAtRest
    /\ ServiceAtRest
    /\ RefreshAtRest
    /\ ExtractionAtRest
    /\ WireAtRest
    /\ OtherAtRest
    /\ SingleAtRest
    /\ CollAtRest
    /\ accounts = [users |-> {[id |-> "U0", username |-> "root", role |-> "admin"]}, issued |-> 0,
                   resp |-> [op |-> "none", status |-> 200, user |-> None]]

\* what no request to the users API changes
notAccounts == <<scrapeVars, api_key, extraction, wire, other, single, service, refresh,
                 coll>>

\* GET /api/users/{identifier}, /me or /by-username/{username}
GetUser ==
    /\ \E caller \in UserCallers,
          path \in {<<x>> : x \in UserIdentifiers \cup {"me"}}
                   \cup {<<"by-username", x>> : x \in UserIdentifiers} :
         LET handler == Dispatch(GetRoutes, path)
         IN  accounts' =
                CASE handler = "get_current_user_profile" ->
                        get_current_user_profile(accounts, caller)
                  [] handler = "get_user_account_first" ->
                        get_user_account_first(accounts, caller, path[1])
                  [] handler = "get_user_account_second" ->
                        get_user_account_second(accounts, caller, path[1])
                  [] OTHER -> get_user_by_username(accounts, caller, path[2])
    /\ UNCHANGED notAccounts

\* PUT or POST /api/users/{identifier}
CreateOrUpdateUserAccount ==
    /\ \E caller \in UserCallers, identifier \in UserIdentifiers, username \in {"alice", "bob"},
          TEST_MODE \in BOOLEAN, unique_usernames \in BOOLEAN :
         accounts' = create_or_update_user_account(accounts, caller, identifier, username,
                                                   TEST_MODE, unique_usernames)
    /\ UNCHANGED notAccounts

\* PATCH /api/users/{username}/role
UpdateUserRole ==
    /\ \E caller \in UserCallers, username \in UserIdentifiers, new_role \in Roles \cup {"owner"} :
         accounts' = update_user_role(accounts, caller, username, new_role)
    /\ UNCHANGED notAccounts

UsersNext == GetUser \/ CreateOrUpdateUserAccount \/ UpdateUserRole

UsersSpec == UsersInit /\ [][UsersNext]_vars

\* ------------------------------------------------------------------ claims
Min(a, b) == IF a <= b THEN a ELSE b

Running == pc \notin {"idle", "done"}

\* the run went through its loop: a key, targets, and a test_limit that compares
LoopRan == api_key # None /\ targets # <<>> /\ ~(test_mode /\ test_limit = None)

ExpectedAttempts ==
    IF test_mode THEN Min(Len(targets), test_limit[1]) ELSE Len(targets)

CountersZero ==
    /\ results.products_found = 0
    /\ results.products_added = 0
    /\ results.products_updated = 0

\* C1: a failure on one target never aborts the run: whatever happened to the
\* targets before it, every target up to the test-mode cap is attempted and the
\* run ends with a report that is not an error report.
C1_FailureNeverAborts ==
    /\ (pc \in {"loop", "finalize"} /\ LoopRan) => attempted = Min(i, ExpectedAttempts)
    /\ (pc = "done" /\ LoopRan) =>
           attempted = ExpectedAttempts /\ results.status # "error"

\* a run in which a target failed and a later target was still processed to the end
C1_Witness ==
    /\ pc = "done"
    /\ ~clean
    /\ lastOutcome \in {"added", "updated"}
    /\ attempted > results.products_added + results.products_updated

\* how far a running call is from its end
Measure ==
    IF ~Running THEN 0
    ELSE IF pc \in {"finalize", "outer_except"} THEN 1
    ELSE 2 + 4 * (Len(targets) - i)
           + (CASE pc = "loop" -> 3 [] pc = "fetch" -> 2 [] pc = "exists" -> 1
                [] OTHER -> 0)

\* C2: the bulk scrape always ends by returning a report and no exception leaves
\* it: a running call can always take a step, each step brings it nearer its end,
\* it never ends raising, and an exception that escaped the per-target handling
\* gives a report with status 'error' and an error_message.
C2_AlwaysReturnsReport ==
    /\ [](pc # "raised")
    /\ [](Running => ENABLED RunStep)
    /\ [][Running => Measure' < Measure]_vars
    /\ [](pc = "done" /\ lastOutcome = "escaped" =>
              results.status = "error" /\ "error_message" \in DOMAIN results)
    /\ (Running ~> pc = "done")

\* an exception escaped the per-target handling and the call returned a report
C2_Witness == pc = "done" /\ lastOutcome = "escaped" /\ results.status = "error"

\* C3: the status of a returned report follows from the outcome: 'success'
\* exactly when a product was found, 'warning' exactly when the run completed
\* with none found, 'error' exactly when an exception escaped.
C3_StatusFollowsOutcome ==
    pc = "done" =>
        /\ results.status \in {"success", "warning", "error"}
        /\ results.status = "success" <=> results.products_found >= 1
        /\ results.status = "warning" <=>
               (results.products_found = 0 /\ lastOutcome # "escaped")
        /\ results.status = "error" <=> lastOutcome = "escaped"

\* a run that attempted targets, found nothing and reported a warning
C3_Witness ==
    pc = "done" /\ attempted >= 1 /\ results.status = "warning"

\* C4: with no urls given and no search terms in the row store (or a failing
\* read), scrape reports a warning with zero counts, and has issued no upstream
\* request and no write to products.
C4_NoTargetsWarning ==
    (pc = "done" /\ ~Truthy(urls) /\ lastOutcome \in {"no_terms", "read_failed"}) =>
        /\ results.status = "warning"
        /\ CountersZero
        /\ fetches = 0 /\ writes = 0
        /\ Len(products) = rowsAtStart

\* the read of the search terms failed and the call returned
C4_Witness ==
    pc = "done" /\ urls = None /\ lastOutcome = "read_failed" /\ targets = <<>>

\* C5: in test mode at most test_limit targets are attempted, skipped and failed
\* ones included; outside test mode every target is attempted.
C5_TestLimitCapsAttempts ==
    /\ (test_mode /\ test_limit # None /\ api_key # None) =>
           /\ attempted <= test_limit[1]
           /\ pc = "done" => attempted = Min(Len(targets), test_limit[1])
    /\ (pc = "done" /\ ~test_mode /\ api_key # None) => attempted = Len(targets)

\* a capped run whose one attempt found nothing, with targets left over
C5_Witness ==
    /\ pc = "done" /\ test_mode /\ test_limit = Some(1)
    /\ Len(targets) > 1
    /\ attempted = 1
    /\ results.products_found = 0

\* C6: when the create or update of a fetched and normalized target fails, the
\* target counts as found, neither as added nor as updated, the table is left
\* as it was, and the loop goes on to the next target.
C6_PersistFailureCountsFound ==
    [][(pc = "persist" /\ lastOutcome' \in {"create_failed", "update_failed"}) =>
          /\ results'.products_found = results.products_found + 1
          /\ results'.products_added = results.products_added
          /\ results'.products_updated = results.products_updated
          /\ products' = products
          /\ pc' = "loop" /\ i' = i + 1]_vars

\* a write failed, and a later target was persisted
C6_Witness ==
    /\ pc = "done"
    /\ lastOutcome \in {"added", "updated"}
    /\ results.products_found > results.products_added + results.products_updated

RunIsIdempotent ==
    /\ results.products_added = 0
    /\ results.products_updated = results.products_found
    /\ Len(products) = rowsAtStart

C8_OneRowPerWork ==
    \A j, k \in DOMAIN products :
        j # k => products[j].external_id # products[k].external_id

TitleMissing(r) ==
    r \in {Response(200, NoTitleBody), Response(200, BlankTitleBody)}

\* C9: every products row has a non-empty name, and an upstream payload with a
\* missing or blank title leads to no write.
C9_NoNamelessRow ==
    /\ \A j \in DOMAIN products : Strip(products[j].name) # <<>>
    /\ (\A w \in WorkIds : TitleMissing(upstream[w])) =>
           writes = 0 /\ Len(products) = rowsAtStart

\* a payload with a blank title came back and the target was dropped
C9_Witness ==
    /\ lastOutcome = "fetch_null"
    /\ upstream[<<"1">>] = Response(200, BlankTitleBody)
    /\ fetches >= 1 /\ writes = 0

NullShaped(r) ==
    r \in {Response(200, ErrorBody), Response(200, ErrorRootBody),
           Response(200, MalformedBody), Response(200, NoTitleBody),
           Response(200, BlankTitleBody)}

\* C10: when the upstream response for a target is error-shaped, malformed,
\* without a work element or without a title, the parser returns null and the
\* loop skips the target: no counter changes and no write is issued.
C10_NullResponseSkipsTarget ==
    /\ [](\A w \in WorkIds : NullShaped(upstream[w]) =>
              _parse_xml_response(upstream[w].body, w) = None)
    /\ [][(pc = "fetch" /\ NullShaped(upstream[work_id])) =>
              /\ results' = results
              /\ writes' = writes
              /\ products' = products
              /\ pc' = "loop" /\ i' = i + 1]_vars

\* an error-shaped response came back and the target was skipped
C10_Witness ==
    /\ lastOutcome = "fetch_null"
    /\ upstream[<<"1">>] = Response(200, ErrorBody)
    /\ pc = "loop" /\ i >= 1
    /\ CountersZero /\ writes = 0

\* the non-empty search terms of the rows, in the order of the rows
RECURSIVE TermsInOrder(_)
TermsInOrder(rows) ==
    IF rows = <<>> THEN <<>>
    ELSE IF Head(rows).search_term = <<>> THEN TermsInOrder(Tail(rows))
    ELSE <<Head(rows).search_term>> \o TermsInOrder(Tail(rows))

\* C11: targets are processed in resolution order: the targets attempted so far
\* are a prefix of the resolved list; with urls supplied that list is the urls,
\* in their order, and scraper_search_terms is not read; without urls it is
\* the non-empty terms the read returned, in the order of the rows.
C11_ResolutionOrder ==
    (pc # "idle" /\ api_key # None) =>
        /\ processed = SubSeq(targets, 1, Len(processed))
        /\ Len(processed) = attempted
        /\ Truthy(urls) => (targets = urls[1] /\ termReads = 0)
        /\ ~Truthy(urls) =>
               /\ termReads = 1
               /\ targets = (IF readData = None THEN <<>> ELSE TermsInOrder(readData[1]))

\* a run without urls that attempted two stored terms in the order of their rows
C11_Witness ==
    /\ pc = "done" /\ urls = None
    /\ readData # None /\ Len(readData[1]) = 3
    /\ processed = <<BareId1, EditionUrl1>>

\* C12: without an API key scrape returns at once with a 'warning' report and
\* zero counts: no read of the search terms, no upstream request, no write.
C12_MissingKeyWarning ==
    (pc # "idle" /\ api_key = None) =>
        /\ pc = "done"
        /\ results.status = "warning"
        /\ "error_message" \notin DOMAIN results
        /\ CountersZero
        /\ termReads = 0 /\ fetches = 0 /\ writes = 0
        /\ attempted = 0
        /\ Len(products) = rowsAtStart

\* a call with urls and no key has returned
C12_Witness ==
    /\ pc = "done" /\ api_key = None /\ lastOutcome = "no_key"
    /\ Truthy(urls)
    /\ results.status = "warning"

\* the first '/work/<digits>' segment of a url, scanned from the left
RECURSIVE FirstWorkSegment(_)
FirstWorkSegment(url) ==
    IF Len(url) < 2 THEN None
    ELSE IF url[1] = "/work/" /\ url[2] \in DigitTokens THEN <<url[2]>>
    ELSE FirstWorkSegment(Tail(url))

\* the url ends with an edition suffix under a work segment
HasEditionSuffix(url) ==
    /\ Len(url) >= 4
    /\ url[Len(url) - 3] = "/work/" /\ url[Len(url) - 2] \in DigitTokens
    /\ url[Len(url) - 1] = "/book/" /\ url[Len(url)] \in DigitTokens

\* C20: the extracted id is the digits of the url's first '/work/<digits>'
\* segment; an edition url yields the id of its work url; and a url without
\* such a segment yields none.
C20_ExtractWorkId ==
    (extraction.done /\ extraction.url # <<>>) =>
        LET url == extraction.url
        IN  /\ extraction.id = FirstWorkSegment(url)
            /\ HasEditionSuffix(url) =>
                   /\ extraction.id # None
                   /\ extraction.id = _extract_work_id(SubSeq(url, 1, Len(url) - 2))
            /\ (\A j \in 1..(Len(url) - 1) :
                    ~(url[j] = "/work/" /\ url[j + 1] \in DigitTokens)) =>
                   extraction.id = None

\* the id of an edition url has been extracted
C20_Witness ==
    /\ extraction.done
    /\ extraction.url = EditionUrl1
    /\ extraction.id = <<"1">>

\* C13: no two requests of an adapter instance are in flight at once, and a
\* request goes out at least the minimum interval after the request before it.
C13_ThrottledRequests ==
    /\ wire.in_flight <= 1
    /\ wire.gap # None => wire.gap[1] >= MinInterval
    /\ wire.last_request_time # None => wire.last_request_time[1] <= wire.now

\* a request that had to sleep for part of the interval and went out right after
C13_Witness ==
    /\ wire.calls >= 2
    /\ wire.slept > 0 /\ wire.slept < MinInterval
    /\ wire.gap = Some(MinInterval)
    /\ wire.in_flight = 1

UniqueUrls ==
    \A j, k \in DOMAIN products : j # k => products[j].url # products[k].url

\* the first run is between its existence check and its write, and what it
\* found no longer matches the table
StaleCheck ==
    /\ pc = "persist"
    /\ (existing = None) #
           (_product_exists(products, ProductUrl(product_payload[1], work_id)) = None)

\* the same for the second run
OtherStaleCheck ==
    /\ other.pc = "persist"
    /\ (other.existing = None) #
           (_product_exists(products, ProductUrl(other.payload[1], <<"1">>)) = None)

\* C14: two rows with one url arise only from the race: a write made on an
\* existence check that a write of the other run has outdated in between. A
\* run's check goes stale only by the other run's write, and while no check is
\* stale no step breaks the uniqueness of url.
C14_DuplicateOnlyByRace ==
    /\ [][(UniqueUrls /\ ~UniqueUrls') =>
             \/ StaleCheck /\ pc' = "loop"
             \/ OtherStaleCheck /\ other'.pc = "done"]_vars
    /\ [][(~StaleCheck /\ StaleCheck') => (other.pc = "persist" /\ other'.pc = "done")]_vars
    /\ [][(~OtherStaleCheck /\ OtherStaleCheck') => (pc = "persist" /\ pc' = "loop")]_vars

\* both runs saw the url absent and both inserted: two rows with one url
C14_Witness ==
    /\ other.pc = "done" /\ other.existing = None
    /\ Len(products) = 2
    /\ products[1].url = products[2].url

\* the url names no work, or upstream answered and does not have the item
NotFound ==
    \/ _extract_work_id(single.url) = None
    \/ /\ single.request = "response"
       /\ \/ upstream[_extract_work_id(single.url)].status_code # 200
          \/ upstream[_extract_work_id(single.url)] \in
                 {Response(200, ErrorBody), Response(200, ErrorRootBody)}

\* C15: scrape_url returns null, and does not raise, when the url carries no
\* work id or upstream does not have the item (error response, no work element,
\* a status other than 200).
C15_NotFoundReturnsNull ==
    (single.outcome \notin {"none", "pending"} /\ NotFound) =>
        single.outcome = "returned" /\ single.value = None

\* upstream answered a work url with an error response, and scrape_url returned
C15_Witness ==
    /\ single.outcome = "returned" /\ single.value = None
    /\ single.url = EditionUrl1
    /\ single.request = "response"
    /\ upstream[<<"1">>] = Response(200, ErrorBody)

\* the request failed on the wire, or its body could not be parsed
TransportOrParseFailure ==
    \/ single.request \in {"timeout", "http_error", "connect_error"}
    \/ /\ single.request = "response"
       /\ upstream[_extract_work_id(single.url)] = Response(200, MalformedBody)

\* C16: a transport or parse failure makes scrape_url fail with a FetchError,
\* and a url that is recognized but not resolvable makes it return null.
C16_TransportFailureRaises ==
    single.outcome \notin {"none", "pending"} =>
        /\ TransportOrParseFailure => single.outcome = "raised"
        /\ (NotFound /\ ~TransportOrParseFailure) =>
               (single.outcome = "returned" /\ single.value = None)

\* C17: an entry point closes the adapter it constructed exactly once, after
\* the bulk scrape has finished, whether the scrape returned or raised and
\* whether or not the search terms could be loaded; what the scrape did is
\* what the entry point does.
C17_AdapterReleased ==
    /\ service.closes <= 1 /\ service.scrapes <= 1
    /\ service.closes = 1 => service.scrapes = 1
    /\ service.pc = "exit" =>
           /\ service.scrapes = 1 /\ service.closes = 1
           /\ service.exit = service.scrape

\* the terms could not be loaded, the scrape raised, and the adapter was closed
C17_Witness ==
    /\ service.pc = "exit"
    /\ service.terms = "failed" /\ service.scrape = "raised"
    /\ service.closes = 1 /\ service.exit = "raised"

GithubConstructed == service.entry = "github" /\ service.pc \notin {"off", "enter"}

FromEnviron ==
    /\ service.token # None
    /\ service.token \in {service.environ.GITHUB_TOKEN, service.environ.GITHUB_ACCESS_TOKEN}

\* C18 as stated: when a persisted configuration record exists its token is the
\* one given to the adapter, and a token of the environment is given only if no
\* persisted record exists.
C18_PersistedConfigFirst ==
    GithubConstructed =>
        /\ service.config # <<>> => service.token = service.config[1].access_token
        /\ FromEnviron => service.config = <<>>

\* the token of the first persisted record, when the read returned one
ReadToken ==
    IF service.readOk /\ service.config # <<>> THEN service.config[1].access_token
    ELSE None

\* C18 as amended: when the read returns a first record with a non-empty token,
\* that token is given to the adapter; a token of the environment is given only
\* if the read returned no such token (no record, an empty token, a failed read).
C18_PersistedTokenFirst ==
    GithubConstructed =>
        /\ ReadToken # None => service.token = ReadToken
        /\ FromEnviron => ReadToken = None
        /\ service.token = None =>
               /\ ReadToken = None
               /\ service.environ.GITHUB_TOKEN = None
               /\ service.environ.GITHUB_ACCESS_TOKEN = None

\* a stored token and tokens in the environment: the stored one is given
C18_Witness ==
    /\ GithubConstructed
    /\ service.config # <<>> /\ service.readOk
    /\ service.environ.GITHUB_TOKEN # None
    /\ service.token = StoredTokenValue

\* the new record has no author, description, year or language to describe the work
NoDescription(wd) ==
    /\ wd.author = None /\ wd.description = None
    /\ wd.publication_year = None /\ wd.language = None

C27_WithinDocumentedLimit ==
    wire.gap # None => wire.gap[1] * DOCUMENTED_REQUESTS_PER_DAY >= 24 * 60 * 60 * TicksPerSecond

Counted(res) == res.products_added + res.products_updated

\* C28: within a run no counter decreases, a step adds at most 1 to
\* products_found and at most 1 to products_added and products_updated
\* together, only the write of a target changes a counter, and at any time,
\* the returned report included, added + updated <= found <= targets attempted.
C28_CounterAccounting ==
    /\ [](Counted(results) <= results.products_found
          /\ results.products_found <= attempted)
    /\ [][pc \notin {"idle", "done"} =>
            /\ results'.products_found \in
                   {results.products_found, results.products_found + 1}
            /\ results'.products_added >= results.products_added
            /\ results'.products_updated >= results.products_updated
            /\ Counted(results') - Counted(results) <= 1
            /\ Counted(results') - Counted(results)
                   <= results'.products_found - results.products_found
            /\ (pc # "persist" =>
                   /\ results'.products_found = results.products_found
                   /\ Counted(results') = Counted(results))]_vars

\* a finished run that attempted two targets, found one and persisted none
C28_Witness ==
    /\ pc = "done" /\ attempted = 2
    /\ results.products_found = 1 /\ Counted(results) = 0

\* the (collection, product) pairs of the junction table occur once each
NoDuplicateMembers(s) ==
    \A r, q \in s.junction :
        (r.collection_id = q.collection_id /\ r.product_id = q.product_id) => r = q

\* the product the identifier names is in the collection the slug names
Present(s, slug, identifier) ==
    /\ _get_collection_by_slug_or_id(s, slug) # None
    /\ ResolveProduct(identifier) # None
    /\ \E r \in JunctionOf(s, _get_collection_by_slug_or_id(s, slug)[1].id) :
           r.product_id = ResolveProduct(identifier)[1]

\* C21: no (collection, product) pair occurs twice in the junction table, and
\* a single add or a bulk add that names only products already in the
\* collection leaves the junction table, and so the product list, as it was.
C21_NoDuplicateProducts ==
    /\ NoDuplicateMembers(coll)
    /\ \A caller \in Users, slug \in CollectionIdentifiers :
         /\ \A identifier \in ProductIdentifiers :
              Present(coll, slug, identifier) =>
                  add_product_to_collection(coll, caller, slug, identifier).junction
                      = coll.junction
         /\ \A product_ids \in ProductLists :
              (\A j \in 1..Len(product_ids) : Present(coll, slug, product_ids[j])) =>
                  add_multiple_products_to_collection(coll, caller, slug,
                                                      product_ids).junction
                      = coll.junction

\* the only collection, filled by a search and not touched since, answered a
\* single add with the list it already had
C21_Witness ==
    /\ coll.resp.op = "add" /\ coll.resp.status = 200
    /\ coll.resp.product_ids = <<"P2", "P1">>
    /\ Cardinality(coll.collections) = 1
    /\ \A c \in coll.collections : c.updated_at = 0
    /\ Cardinality(coll.junction) = 2

\* the request was refused with 403 and the tables are as they were
Refused(after) ==
    /\ after.resp.status = 403
    /\ after.collections = coll.collections
    /\ after.junction = coll.junction

PositionsDistinct(s) ==
    \A r, q \in s.junction :
        (r.collection_id = q.collection_id /\ r.position = q.position) => r = q

\* the products of the old list that are still in the new one, in the old order
Kept(old, new) == SelectSeq(old, LAMBDA x : \E j \in 1..Len(new) : new[j] = x)

\* C24: the positions of the junction rows of a collection are pairwise
\* distinct; a request leaves the products that stay in a collection in the
\* order they had and puts the products it adds after them; the list a
\* membership request returns is the collection's list by position.
C24_InsertionOrder ==
    /\ [](PositionsDistinct(coll))
    /\ []((coll.resp.status = 200
           /\ coll.resp.op \in {"add", "add_multiple", "remove", "remove_all"}) =>
              \E c \in coll.collections :
                  coll.resp.product_ids = ProductIdsOf(coll, c.id))
    /\ [][coll'.junction # coll.junction =>
            \A c \in coll.collections :
                (\E d \in coll'.collections : d.id = c.id) =>
                    LET old == ProductIdsOf(coll, c.id)
                        new == ProductIdsOf(coll', c.id)
                        kept == Kept(old, new)
                    IN  /\ Len(kept) <= Len(new)
                        /\ SubSeq(new, 1, Len(kept)) = kept]_vars

\* a product removed and added again comes last, at a position never used before
C24_Witness ==
    /\ coll.resp.op = "add" /\ coll.resp.status = 200
    /\ coll.resp.product_ids = <<"P1", "P2">>
    /\ \E r, q \in coll.junction :
          /\ r.collection_id = q.collection_id
          /\ r.product_id = "P1" /\ r.position = 1
          /\ q.product_id = "P2" /\ q.position = 2

TablesUnchanged(after) ==
    /\ after.collections = coll.collections
    /\ after.junction = coll.junction

\* C29: a bulk add by the owner in which an identifier resolves to no product
\* fails with 404; a bulk add with such an identifier, with an empty list or
\* with only products already present leaves the junction table and the
\* collection's updated_at as they were.
C29_BulkAddAllOrNothing ==
    \A caller \in Users, slug \in CollectionIdentifiers, product_ids \in ProductLists :
        LET found == _get_collection_by_slug_or_id(coll, slug)
            after == add_multiple_products_to_collection(coll, caller, slug, product_ids)
            unknown == \E j \in 1..Len(product_ids) : ResolveProduct(product_ids[j]) = None
        IN  /\ (unknown /\ found # None /\ found[1].user_id = caller) =>
                   after.resp.status = 404
            /\ unknown => TablesUnchanged(after)
            /\ (\A j \in 1..Len(product_ids) : Present(coll, slug, product_ids[j])) =>
                   TablesUnchanged(after)

\* the owner's bulk add on a collection with products failed on an unknown product
C29_Witness ==
    /\ coll.resp.op = "add_multiple" /\ coll.resp.status = 404
    /\ coll.resp.detail = "Product not found"
    /\ coll.junction # {}

\* C23: a collection whose is_public is false is returned to its owner and
\* refused with 403 to every other caller, anonymous or not; the public
\* listing is exactly the collections whose is_public is now true.
C23_PrivateOnlyForOwner ==
    /\ \A caller \in Callers, slug \in CollectionIdentifiers :
         LET found == _get_collection_by_slug_or_id(coll, slug)
         IN  (found # None /\ ~found[1].is_public) =>
                 get_collection(coll, caller, slug).resp.status =
                     (IF caller = found[1].user_id THEN 200 ELSE 403)
    /\ \A c \in get_public_collections(coll).resp.listing :
         c \in coll.collections /\ c.is_public
    /\ coll.resp.op = "get" /\ coll.resp.status = 200 =>
         \A c \in coll.resp.listing : c \in coll.collections
    /\ coll.resp.op = "list_public" =>
         coll.resp.listing = {c \in coll.collections : c.is_public}

\* the only collection was updated, is private now, and a fetch of it was refused
C23_Witness ==
    /\ coll.resp.op = "get" /\ coll.resp.status = 403
    /\ Cardinality(coll.collections) = 1
    /\ \A c \in coll.collections : ~c.is_public /\ c.updated_at >= 1


\* C26: creating or updating an account never changes the role of a user that
\* exists and gives a new user the role 'user'; a role changes only through
\* the role endpoint, called by an admin with one of user, moderator, admin.
C26_RoleChangesOnlyByAdmin ==
    [][accounts'.users # accounts.users =>
         \A u \in accounts'.users :
            LET before == {v \in accounts.users : v.id = u.id}
            IN  IF before = {} THEN u.role = "user"
                ELSE \A v \in before :
                        v.role # u.role =>
                            /\ accounts'.resp.op = "update_role"
                            /\ accounts'.resp.status = 200
                            /\ CurrentRole(accounts, accounts'.resp.caller) = "admin"
                            /\ u.role \in Roles]_vars

\* an admin made an account created with role 'user' a moderator
C26_Witness ==
    /\ accounts.resp.op = "update_role"
    /\ accounts.resp.status = 200
    /\ accounts.resp.caller = "U0"
    /\ \E u \in accounts.users : u.id # "U0" /\ u.role = "moderator"

\* C30: GET on the users route answers with the user whose username is the
\* identifier, else the user whose id is the identifier, and with 404 only
\* when neither exists.
C30_LookupByIdentifier ==
    accounts.resp.op = "get_user_account" =>
        LET byName == {u \in accounts.users : u.username = accounts.resp.identifier}
            byId == {u \in accounts.users : u.id = accounts.resp.identifier}
        IN  IF byName # {}
            THEN accounts.resp.status = 200 /\ accounts.resp.user \in {Some(u) : u \in byName}
            ELSE IF byId # {}
            THEN accounts.resp.status = 200 /\ accounts.resp.user \in {Some(u) : u \in byId}
            ELSE accounts.resp.status = 404

====
